---- MODULE Spec2Model ----
(***************************************************************************)
(* Model of Utils/DrawConstellations.py: drawConstellations(), which       *)
(* renders constellation lines on a transparent canvas, and the command    *)
(* line flow of the __main__ block that loads a platepar, optionally       *)
(* overrides its resolution, renders, and writes the PNG.                  *)
(*                                                                         *)
(* Units.  Sky coordinates and separations are whole degrees.  Pixel       *)
(* coordinates returned by the projector are counted in half pixels, so    *)
(* that rounding to the nearest pixel is a real operation.  F_scale is     *)
(* counted in halves of a pixel per degree, so that F_scale *= 0.5 is      *)
(* exact on the values used.                                               *)
(***************************************************************************)
EXTENDS Integers, Sequences, FiniteSets, TLC

----------------------------------------------------------------------------
(* Bounds of the model *)

\* longest catalog (number of rows of constellation_lines.csv)
MaxSegs == 2

\* number of consecutive library calls of drawConstellations with the
\* same arguments
MaxCalls == 2

----------------------------------------------------------------------------
(* Values *)

\* Python's None; a value that may be None is wrapped as Some(v)
None == [none |-> TRUE]
Some(v) == [v |-> v]

\* A local variable that was never assigned
Unbound == [unbound |-> TRUE]

\* No exception
NoErr == "none"

\* A float is a finite number Fin(n) or one of the non-finite NaN, Inf
NaN == [nonfinite |-> "NaN"]
Inf == [nonfinite |-> "Inf"]
Fin(n) == [fin |-> n]

\* line 26: fps = 25
fps == 25

Abs(n) == IF n < 0 THEN -n ELSE n

Max(a, b) == IF a >= b THEN a ELSE b

----------------------------------------------------------------------------
(* Sky geometry *)

\* Angular distance of two right ascensions along the equator.
CircDiff(ra1, ra2) ==
    LET d == Abs(ra1 - ra2) % 360
    IN  IF d > 180 THEN 360 - d ELSE d

\* line 33: np.rad2deg(angularSeparation(np.deg2rad(..), ...)): great-circle
\* separation in degrees, sep = arccos(sin d1 sin d2 + cos d1 cos d2 cos(ra1-ra2)),
\* evaluated on the point pairs where it is a whole number of degrees:
\* both points on one meridian circle (same right ascension, or right
\* ascensions 180 degrees apart), or both on the equator.
AngSepDeg(ra1, dec1, ra2, dec2) ==
    IF CircDiff(ra1, ra2) = 0 THEN Abs(dec1 - dec2)
    ELSE IF CircDiff(ra1, ra2) = 180 THEN 180 - Abs(dec1 + dec2)
    ELSE CircDiff(ra1, ra2)

\* Sky points used for pointing centres and segment endpoints; they all lie
\* on the meridian circle ra = 10 / ra = 190.
P0   == [ra |-> 10,  dec |-> 20]
P5   == [ra |-> 10,  dec |-> 25]
P90  == [ra |-> 10,  dec |-> -70]
P175 == [ra |-> 190, dec |-> -25]
P180 == [ra |-> 190, dec |-> -20]

\* A catalog segment: (from_ra, from_dec, to_ra, to_dec).
Seg(f, t) == <<f.ra, f.dec, t.ra, t.dec>>

Segments ==
    { Seg(P0, P5), Seg(P5, P175), Seg(P90, P0), Seg(P180, P5) }

----------------------------------------------------------------------------
(* Files and names *)

\* An FF file path is a sequence of characters.  The character after "F"
\* in the file name stands for the time stamp the name encodes.
FF1 == <<"d", "/", "F", "1", ".", "f", "i", "t", "s">>
FF2 == <<"F", "2", "s", ".", "f", "i", "t", "s">>
FFFiles == {FF1, FF2}

RECURSIVE basename(_)
\* os.path.basename: the part after the last "/"
basename(path) ==
    IF \E k \in 1..Len(path) : path[k] = "/"
    THEN basename(Tail(path))
    ELSE path

RECURSIVE rstrip(_, _)
\* str.rstrip(chars): drops every trailing character that is in chars
rstrip(str, chars) ==
    IF str # <<>> /\ str[Len(str)] \in chars
    THEN rstrip(SubSeq(str, 1, Len(str) - 1), chars)
    ELSE str

\* line 61: cml_args.ff_file.rstrip(".fits") + "_constellations.png"
DefaultOutName(ff_file) ==
    rstrip(ff_file, {".", "f", "i", "t", "s"}) \o <<"_constellations.png">>

\* line 59-61: the output file name
OutFileName(args) ==
    IF args.output = None THEN DefaultOutName(args.ff_file) ELSE args.output.v

\* getMiddleTimeFF: the time stamp of the name, in 1/100 s, plus half the
\* duration of a block of ff_frames frames at fps frames per second
getMiddleTimeFF(name, rate, ff_frames) ==
    LET start == IF name[2] = "1" THEN 1000 ELSE 2000
    IN  start + (ff_frames * 50) \div rate

\* date2JD: the capture moment as one number (same unit, an offset epoch)
date2JD(t) == t + 100000

\* line 27: fftime_jd
FFTimeJD(ff_file, cfg) ==
    date2JD(getMiddleTimeFF(basename(ff_file), fps, cfg.frames_per_block))

----------------------------------------------------------------------------
(* Platepar *)

\* Platepar(): the calibration of one image
MkPlatepar(xres, yres, c) ==
    [X_res |-> xres, Y_res |-> yres, RA_d |-> c.ra, dec_d |-> c.dec,
     F_scale |-> 4, refraction |-> TRUE, distortion |-> TRUE]

\* lines 70-75: the resolution override of the command line
OverrideResolution(pp, res) ==
    [pp EXCEPT !.X_res = res, !.Y_res = res,
               !.F_scale = pp.F_scale \div 2,
               !.refraction = FALSE,
               !.distortion = FALSE]

----------------------------------------------------------------------------
(* Projector *)

\* raDecToXYPP for one sky point: pixel coordinates in half pixels, or a
\* non-finite value (undef = NaN or Inf) for a point 90 degrees or more from
\* the pointing centre, where the projection is undefined.
ProjectPoint(ra, dec, jd, pp, undef) ==
    LET sep  == AngSepDeg(pp.RA_d, pp.dec_d, ra, dec)
        off  == (sep * pp.F_scale) \div 10
        side == IF CircDiff(ra, pp.RA_d) = 0 /\ dec >= pp.dec_d THEN 1 ELSE -1
        dy   == ((jd \div 1000) % 2) + (IF pp.refraction THEN 1 ELSE 0)
                   + (IF pp.distortion THEN off ELSE 0) - 2
    IN  IF undef # None /\ sep >= 90
        THEN <<undef.v, undef.v>>
        ELSE <<Fin(pp.X_res + side * off), Fin(pp.Y_res + dy)>>

\* raDecToXYPP(ra_array, dec_array, jd, platepar) -> (x_array, y_array)
raDecToXYPP(ras, decs, jd, pp, undef) ==
    << [k \in 1..Len(ras) |-> ProjectPoint(ras[k], decs[k], jd, pp, undef)[1]],
       [k \in 1..Len(ras) |-> ProjectPoint(ras[k], decs[k], jd, pp, undef)[2]] >>

----------------------------------------------------------------------------
(* Rounding and rasterisation *)

IsFinite(v) == v \notin {NaN, Inf}

\* int(round(v)): nearest whole pixel of a finite value given in half
\* pixels, ties to the even pixel
Round(v) ==
    LET h == v.fin
    IN  IF h % 2 = 0 THEN h \div 2
        ELSE LET k == (h - 1) \div 2
             IN  IF k % 2 = 0 THEN k ELSE k + 1

\* The exception int(round(v)) raises on a non-finite v, NoErr on a finite v
RoundError(v) ==
    IF v = NaN THEN "ValueError"
    ELSE IF v = Inf THEN "OverflowError"
    ELSE NoErr

\* a / n rounded to the nearest integer, n > 0
RoundDiv(a, n) == (2 * a + n) \div (2 * n)

\* cv2.line, thickness 1: the pixels of the 8-connected line from p to q
\* that lie inside a canvas of the given width and height (the primitive
\* clips silently)
LinePixels(p, q, width, height) ==
    LET dx == q[1] - p[1]
        dy == q[2] - p[2]
        n  == Max(Abs(dx), Abs(dy))
        at(k) == IF n = 0 THEN p
                 ELSE <<p[1] + RoundDiv(k * dx, n), p[2] + RoundDiv(k * dy, n)>>
    IN  { at(k) : k \in 0..n } \cap ((0..(width - 1)) \X (0..(height - 1)))

\* Mutation of NewCanvas: the canvas allocated as (X_res, Y_res, 4)
NewCanvasTransposed(pp) ==
    [shape |-> <<pp.X_res, pp.Y_res, 4>>,
     px    |-> [xy \in (0..(pp.Y_res - 1)) \X (0..(pp.X_res - 1)) |-> <<0, 0, 0, 0>>]]

\* line 24-25: np.zeros((Y_res, X_res, 4)), alpha set to 0
NewCanvas(pp) ==
    [shape |-> <<pp.Y_res, pp.X_res, 4>>,
     px    |-> [xy \in (0..(pp.X_res - 1)) \X (0..(pp.Y_res - 1)) |-> <<0, 0, 0, 0>>]]

\* line 37: cv2.line(img, from, to, color, 1)
DrawLine(canvas, p, q, color) ==
    LET on == LinePixels(p, q, canvas.shape[2], canvas.shape[1])
    IN  [canvas EXCEPT !.px = [xy \in DOMAIN canvas.px |->
                                  IF xy \in on THEN color ELSE canvas.px[xy]]]

\* line 23: the default colour
DefaultColor == <<255, 0, 0, 192>>

\* "not color_bgra": None and the empty list are falsy
Falsy(v) == v = None \/ v = Some(<<>>)

----------------------------------------------------------------------------
(* Catalog file and np.loadtxt *)

\* One row of the table with ncols columns: the segment's four numbers,
\* cut short or followed by extra columns.
Row(seg, ncols) == SubSeq(seg \o <<0>>, 1, ncols)

CatalogFile(exists, numeric, ncols, segs) ==
    [exists |-> exists, numeric |-> numeric,
     rows |-> [k \in 1..Len(segs) |-> Row(segs[k], ncols)]]

\* line 29: np.loadtxt(path, delimiter=","): raises on a missing file or a
\* non-numeric field; the array is squeezed, so that a table of one row (or
\* none) comes back one-dimensional.
loadtxt(file) ==
    IF ~file.exists THEN [err |-> "OSError"]
    ELSE IF ~file.numeric THEN [err |-> "ValueError"]
    ELSE [err |-> NoErr,
          ndim |-> IF Len(file.rows) >= 2 THEN 2 ELSE 1,
          data |-> file.rows]

\* lines[:, c] (c counted from 0) is an IndexError on a one-dimensional
\* array and on a column the table does not have
ColumnError(lines, c) ==
    lines.ndim # 2 \/ c >= Len(lines.data[1])

\* lines[:, c]
Column(lines, c) == [k \in 1..Len(lines.data) |-> lines.data[k][c + 1]]

----------------------------------------------------------------------------
(* State *)

VARIABLES
    entry,          \* "cli": the __main__ block runs; "lib": a caller calls
                    \* drawConstellations directly
    cml_args,       \* parsed command line: ff_file, output, resolution
    platepars,      \* contents of the platepars_recalibrated file: name -> dict
    catalog_file,   \* share/constellation_lines.csv on disk
    kind,           \* the non-finite value the projector returns outside
                    \* its domain, None if it is finite everywhere
    call,           \* arguments of drawConstellations: ff_file,
                    \* separation_deg, color_bgra, config
    platepar,       \* the Platepar object (None before it is loaded)
    outfilename,    \* line 59-61
    pc,             \* position of the program
    err,            \* the exception that ended the run, None if none
    color_bgr,      \* local of drawConstellations, Unbound until assigned
    img,            \* local: the canvas
    fftime_jd,      \* local: capture moment
    lines,          \* local: the loaded catalog
    proj,           \* locals from_x, from_y, to_x, to_y, ang_sep
    i,              \* loop index (counted from 1)
    drawn,          \* history: indices for which cv2.line ran in this call
    proj_calls,     \* history: number of raDecToXYPP calls made so far
    rets,           \* history: the canvases returned so far
    storage,        \* files written by cv2.imwrite
    stdout          \* what print() wrote

vars == <<entry, cml_args, platepars, catalog_file, kind, call, platepar,
          outfilename, pc, err, color_bgr, img, fftime_jd, lines, proj, i,
          drawn, proj_calls, rets, storage, stdout>>

inputs == <<entry, cml_args, platepars, catalog_file, kind>>

locals == <<color_bgr, img, fftime_jd, lines, proj, i, drawn>>

----------------------------------------------------------------------------
(* Inputs *)

SeqsUpTo(S, n) == UNION { [1..k -> S] : k \in 0..n }

\* The file is missing, holds a non-numeric field, or is a numeric table of
\* 3, 4 or 5 columns.
CatalogFiles ==
    { CatalogFile(FALSE, TRUE, 4, <<>>) }
      \cup { CatalogFile(TRUE, FALSE, 4, segs) :
                segs \in SeqsUpTo(Segments, 1) }
      \cup { CatalogFile(TRUE, TRUE, n, segs) :
                n \in {3, 4, 5}, segs \in SeqsUpTo(Segments, MaxSegs) }

\* config with config.frames_per_block
Config == [frames_per_block |-> 256]

Platepars == { MkPlatepar(3, 2, c) : c \in {P0, P180} }

Separations == {-10, 0, 90, 180, 200}

Colors == {None, Some(<<>>), Some(<<0, 255, 0, 255>>)}

NoLocals ==
    /\ color_bgr = Unbound
    /\ img = None
    /\ fftime_jd = None
    /\ lines = None
    /\ proj = None
    /\ i = 0
    /\ drawn = {}

\* The command line run: platepars file, FF file, optional -o and -r.
InitCli ==
    /\ entry = "cli"
    /\ \E ff \in FFFiles, out \in {None, Some(<<"o.png">>)},
          res \in {None, Some(2)} :
          cml_args = [ff_file |-> ff, output |-> out, resolution |-> res]
    /\ \E keys \in SUBSET {basename(cml_args.ff_file)}, pp \in Platepars :
          platepars = [k \in keys |-> pp]
    /\ platepar = None
    /\ call = None
    /\ pc = "main"

\* A direct call drawConstellations(platepar, ff_file, separation_deg,
\* color_bgra, config).
InitLib ==
    /\ entry = "lib"
    /\ cml_args = None
    /\ platepars = None
    /\ platepar \in Platepars
    /\ \E ff \in FFFiles, sep \in Separations, col \in Colors,
          cfg \in {None, Config} :
          call = [ff_file |-> ff, separation_deg |-> sep,
                  color_bgra |-> col, config |-> cfg]
    /\ pc = "r_begin"

Init ==
    /\ InitCli \/ InitLib
    /\ catalog_file \in CatalogFiles
    /\ kind \in {None, Some(NaN), Some(Inf)}
    /\ outfilename = None
    /\ err = NoErr
    /\ NoLocals
    /\ proj_calls = 0
    /\ rets = <<>>
    /\ storage = {}
    /\ stdout = <<>>

\* An exception propagates: the run ends.
Raise(e) ==
    /\ pc' = "raised"
    /\ err' = e

----------------------------------------------------------------------------
(* drawConstellations *)

\* lines 22-27: the colour, the canvas, the capture moment
RenderBegin ==
    /\ pc = "r_begin"
    /\ color_bgr' = IF Falsy(call.color_bgra) THEN Some(DefaultColor)
                               ELSE Unbound
    /\ img' = NewCanvas(platepar)
    /\ drawn' = {}
    /\ i' = 0
    /\ IF call.config = None
       THEN /\ Raise("AttributeError")
            /\ UNCHANGED fftime_jd
       ELSE /\ fftime_jd' = FFTimeJD(call.ff_file, call.config)
            /\ pc' = "r_load"
            /\ UNCHANGED err
    /\ UNCHANGED <<inputs, call, platepar, outfilename, lines, proj,
                   proj_calls, rets, storage, stdout>>

\* lines 28-31: load the catalog and slice its four columns
LoadCatalog ==
    /\ pc = "r_load"
    /\ LET loaded == loadtxt(catalog_file)
       IN  IF loaded.err # NoErr
           THEN /\ Raise(loaded.err)
                /\ UNCHANGED lines
           ELSE /\ lines' = loaded
                /\ IF \E c \in 0..3 : ColumnError(loaded, c)
                   THEN Raise("IndexError")
                   ELSE /\ pc' = "r_project"
                        /\ UNCHANGED err
    /\ UNCHANGED <<inputs, call, platepar, outfilename, color_bgr, img,
                   fftime_jd, proj, i, drawn, proj_calls, rets, storage,
                   stdout>>

\* line 33: the separation of every "from" endpoint from the pointing centre
AngSepArray(pp, from_ra, from_dec) ==
    [k \in 1..Len(from_ra) |->
        AngSepDeg(pp.RA_d, pp.dec_d, from_ra[k], from_dec[k])]

\* lines 32-34: project both endpoint arrays, compute the separations
ProjectAll ==
    /\ pc = "r_project"
    /\ LET from_ra  == Column(lines, 0)
           from_dec == Column(lines, 1)
           to_ra    == Column(lines, 2)
           to_dec   == Column(lines, 3)
           from_xy  == raDecToXYPP(from_ra, from_dec, fftime_jd, platepar, kind)
           to_xy    == raDecToXYPP(to_ra, to_dec, fftime_jd, platepar, kind)
       IN  proj' = [from_x  |-> from_xy[1], from_y |-> from_xy[2],
                    to_x    |-> to_xy[1],   to_y   |-> to_xy[2],
                    ang_sep |-> AngSepArray(platepar, from_ra, from_dec)]
    /\ proj_calls' = proj_calls + 2
    /\ i' = 1
    /\ pc' = "r_loop"
    /\ UNCHANGED <<inputs, call, platepar, outfilename, err, color_bgr, img,
                   fftime_jd, lines, drawn, rets, storage, stdout>>

\* Mutation of PassesFilter: the comparison made inclusive
PassesFilterInclusive(ang_sep, separation_deg) == ang_sep <= separation_deg

\* line 36: the filter
PassesFilter(ang_sep, separation_deg) == ang_sep < separation_deg

\* line 37: the first exception raised while the arguments of cv2.line are
\* evaluated from left to right, NoErr if there is none
DrawError(k) ==
    LET vs   == <<proj.from_x[k], proj.from_y[k], proj.to_x[k], proj.to_y[k]>>
        bad  == { n \in 1..4 : ~IsFinite(vs[n]) }
    IN  IF bad # {}
        THEN RoundError(vs[CHOOSE n \in bad : \A m \in bad : n <= m])
        ELSE IF color_bgr = Unbound THEN "UnboundLocalError"
        ELSE NoErr

\* lines 35-37: one iteration of the loop
LoopStep ==
    /\ pc = "r_loop"
    /\ i <= Len(proj.to_x)
    /\ IF PassesFilter(proj.ang_sep[i], call.separation_deg)
       THEN IF DrawError(i) # NoErr
            THEN /\ Raise(DrawError(i))
                 /\ UNCHANGED <<img, drawn, i>>
            ELSE /\ img' = DrawLine(img,
                                    <<Round(proj.from_x[i]), Round(proj.from_y[i])>>,
                                    <<Round(proj.to_x[i]), Round(proj.to_y[i])>>,
                                    color_bgr.v)
                 /\ drawn' = drawn \cup {i}
                 /\ i' = i + 1
                 /\ UNCHANGED <<pc, err>>
       ELSE /\ i' = i + 1
            /\ UNCHANGED <<img, drawn, pc, err>>
    /\ UNCHANGED <<inputs, call, platepar, outfilename, color_bgr, fftime_jd,
                   lines, proj, proj_calls, rets, storage, stdout>>

\* Mutation of RenderReturn: the render saves its canvas before returning
RenderReturnSaving ==
    /\ pc = "r_loop"
    /\ i > Len(proj.to_x)
    /\ rets' = Append(rets, img)
    /\ storage' = storage \cup {[name |-> <<"debug.png">>, img |-> img]}
    /\ pc' = "returned"
    /\ UNCHANGED <<inputs, call, platepar, outfilename, err, color_bgr, img,
                   fftime_jd, lines, proj, i, drawn, proj_calls, stdout>>

\* line 39: return img
RenderReturn ==
    /\ pc = "r_loop"
    /\ i > Len(proj.to_x)
    /\ rets' = Append(rets, img)
    /\ pc' = "returned"
    /\ UNCHANGED <<inputs, call, platepar, outfilename, err, color_bgr, img,
                   fftime_jd, lines, proj, i, drawn, proj_calls, storage,
                   stdout>>

\* The caller of the library calls again with the same arguments.
CallAgain ==
    /\ entry = "lib"
    /\ pc = "returned"
    /\ Len(rets) < MaxCalls
    /\ pc' = "r_begin"
    /\ UNCHANGED <<inputs, call, platepar, outfilename, err, locals,
                   proj_calls, rets, storage, stdout>>

----------------------------------------------------------------------------
(* __main__ *)

\* lines 57-61: parse the arguments, choose the output file name
ParseArgs ==
    /\ pc = "main"
    /\ outfilename' = OutFileName(cml_args)
    /\ pc' = "load_platepar"
    /\ UNCHANGED <<inputs, call, platepar, err, locals, proj_calls, rets,
                   storage, stdout>>

\* Mutation of LoadPlatepar: a missing entry falls back to a default
\* platepar instead of raising KeyError
LoadPlateparDefault ==
    /\ pc = "load_platepar"
    /\ platepar' = IF basename(cml_args.ff_file) \in DOMAIN platepars
                   THEN platepars[basename(cml_args.ff_file)]
                   ELSE MkPlatepar(3, 2, P0)
    /\ pc' = "resolution"
    /\ UNCHANGED <<inputs, call, outfilename, err, locals, proj_calls, rets,
                   storage, stdout>>

\* lines 63-68: read the platepars file, take the entry of the FF file
LoadPlatepar ==
    /\ pc = "load_platepar"
    /\ IF basename(cml_args.ff_file) \in DOMAIN platepars
       THEN /\ platepar' = platepars[basename(cml_args.ff_file)]
            /\ pc' = "resolution"
            /\ UNCHANGED err
       ELSE /\ Raise("KeyError")
            /\ UNCHANGED platepar
    /\ UNCHANGED <<inputs, call, outfilename, locals, proj_calls, rets,
                   storage, stdout>>

\* lines 70-75: the optional resolution override
ApplyResolution ==
    /\ pc = "resolution"
    /\ platepar' = IF cml_args.resolution # None
                   THEN OverrideResolution(platepar, cml_args.resolution.v)
                   ELSE platepar
    /\ pc' = "config"
    /\ UNCHANGED <<inputs, call, outfilename, err, locals, proj_calls, rets,
                   storage, stdout>>

\* line 78: the arguments the command line passes to drawConstellations;
\* separation_deg and color_bgra keep their defaults
CliCallArgs(ff_file, cfg) ==
    [ff_file |-> ff_file, separation_deg |-> 90, color_bgra |-> None,
     config |-> cfg]

\* lines 77-78: load the config, call drawConstellations
LoadConfigAndCall ==
    /\ pc = "config"
    /\ call' = CliCallArgs(cml_args.ff_file, Config)
    /\ pc' = "r_begin"
    /\ UNCHANGED <<inputs, platepar, outfilename, err, locals, proj_calls,
                   rets, storage, stdout>>

\* lines 80-81: write the image, print its name
WriteImage ==
    /\ entry = "cli"
    /\ pc = "returned"
    /\ storage' = storage \cup {[name |-> outfilename, img |-> rets[Len(rets)]]}
    /\ stdout' = Append(stdout, <<"Wrote", outfilename>>)
    /\ pc' = "done"
    /\ UNCHANGED <<inputs, call, platepar, outfilename, err, locals,
                   proj_calls, rets>>

----------------------------------------------------------------------------

Next ==
    \/ RenderBegin
    \/ LoadCatalog
    \/ ProjectAll
    \/ LoopStep
    \/ RenderReturn
    \/ CallAgain
    \/ ParseArgs
    \/ LoadPlatepar
    \/ ApplyResolution
    \/ LoadConfigAndCall
    \/ WriteImage

Spec == Init /\ [][Next]_vars

----------------------------------------------------------------------------
(* Vocabulary of the properties *)

\* drawConstellations has been called
Called == call # None

\* the call has ended: it returned a canvas or an exception left it
RenderOver == Called /\ pc \in {"returned", "raised", "done"}

\* the catalog is a numeric table of four columns and at least two rows,
\* the form the shipped constellation_lines.csv has
TableCatalog ==
    /\ catalog_file.exists
    /\ catalog_file.numeric
    /\ Len(catalog_file.rows) >= 2
    /\ Len(catalog_file.rows[1]) = 4

\* the catalog's segments
NSegs == Len(catalog_file.rows)

\* separation of the pointing centre from segment k's "from" endpoint
FromSep(k) ==
    AngSepDeg(platepar.RA_d, platepar.dec_d,
              catalog_file.rows[k][1], catalog_file.rows[k][2])

\* separation of the pointing centre from segment k's "to" endpoint
ToSep(k) ==
    AngSepDeg(platepar.RA_d, platepar.dec_d,
              catalog_file.rows[k][3], catalog_file.rows[k][4])

\* the call got as far as filtering the segments
Filtering == Called /\ call.config # None /\ TableCatalog

Transparent(canvas) == \A xy \in DOMAIN canvas.px : canvas.px[xy][4] = 0

Coloured(canvas) == { xy \in DOMAIN canvas.px : canvas.px[xy] # <<0, 0, 0, 0>> }

ShapeOf(pp) == <<pp.Y_res, pp.X_res, 4>>

----------------------------------------------------------------------------
(* C1 *)

\* C1: when a render is over, each catalog segment has been drawn if and
\* only if the separation of its "from" endpoint from the pointing centre
\* is strictly less than the threshold, whatever its "to" endpoint (here
\* for a projector that is finite everywhere).
C1_DrawnIffFromWithinThreshold ==
    (RenderOver /\ Filtering /\ kind = None) =>
        \A k \in 1..NSegs : (k \in drawn) <=> (FromSep(k) < call.separation_deg)

----------------------------------------------------------------------------
(* C2 *)

\* C2: a render whose projector returned a non-finite coordinate skips the
\* segment and goes on: once the projector has been called, a render with
\* the default colour never ends in an exception.
C2_NonFiniteNeverAborts ==
    (Called /\ proj_calls > 0 /\ Falsy(call.color_bgra)) => pc # "raised"

----------------------------------------------------------------------------
(* C3 *)

\* C3: a render of an empty catalog completes without error and its canvas
\* is fully transparent.
C3_EmptyCatalogTransparent ==
    (Called /\ call.config # None /\ catalog_file.exists
        /\ catalog_file.numeric /\ NSegs = 0) =>
        /\ pc # "raised"
        /\ \A n \in 1..Len(rets) : Transparent(rets[n])

----------------------------------------------------------------------------
(* C4 *)

\* C4: a render called with a 4-channel colour of the caller completes and
\* every pixel it drew holds exactly that colour.
C4_CallerColourUsed ==
    (Called /\ ~Falsy(call.color_bgra) /\ Filtering /\ kind = None) =>
        /\ pc # "raised"
        /\ img # None =>
              \A xy \in Coloured(img) : img.px[xy] = call.color_bgra.v

----------------------------------------------------------------------------
(* C5 *)

\* C5: a separation threshold outside [0, 180] is rejected before any
\* projector call is made and before any segment is drawn.
C5_ThresholdValidatedFirst ==
    (Called /\ call.separation_deg \notin 0..180) =>
        /\ proj_calls = 0
        /\ drawn = {}
        /\ pc # "returned"

----------------------------------------------------------------------------
(* C6 *)

\* C6: with the threshold 180, when the render is over every segment whose
\* "from" endpoint projected to finite pixel coordinates has been drawn.
C6_At180AllFiniteFromDrawn ==
    (RenderOver /\ Filtering /\ call.separation_deg = 180) =>
        \A k \in 1..NSegs :
            (proj # None /\ IsFinite(proj.from_x[k]) /\ IsFinite(proj.from_y[k]))
                => k \in drawn

----------------------------------------------------------------------------
(* C7 *)

\* C7: with the threshold 0 no segment is ever drawn, the canvas stays
\* fully transparent and so is every canvas returned.
C7_ZeroThresholdDrawsNothing ==
    (Called /\ call.separation_deg = 0) =>
        /\ drawn = {}
        /\ img # None => Transparent(img)
        /\ \A n \in 1..Len(rets) : Transparent(rets[n])

\* a render with threshold 0 returned although a segment starts exactly at
\* the pointing centre (separation 0)
C7_Witness ==
    /\ pc = "returned"
    /\ call.separation_deg = 0
    /\ TableCatalog
    /\ \E k \in 1..NSegs : FromSep(k) = 0
    /\ Transparent(rets[Len(rets)])

----------------------------------------------------------------------------
(* C8 *)

\* C8: the canvas of a render has the shape (Y_res, X_res, 4) of the
\* calibration as it stands, up to and including the moment the image is
\* written; on the command line the resolution override is in the
\* calibration by the time the render is called.
C8_CanvasShapeIsCalibrationShape ==
    /\ img # None =>
          /\ img.shape = ShapeOf(platepar)
          /\ DOMAIN img.px = (0..(platepar.X_res - 1)) \X (0..(platepar.Y_res - 1))
    /\ \A n \in 1..Len(rets) : rets[n].shape = ShapeOf(platepar)
    /\ \A f \in storage : f.img.shape = ShapeOf(platepar)
    /\ (entry = "cli" /\ Called /\ cml_args.resolution # None) =>
          /\ platepar.X_res = cml_args.resolution.v
          /\ platepar.Y_res = cml_args.resolution.v

\* the command line run wrote an image rendered after a resolution override
C8_Witness ==
    /\ pc = "done"
    /\ cml_args.resolution # None
    /\ \E f \in storage : f.img.shape = <<2, 2, 4>> /\ ~Transparent(f.img)

----------------------------------------------------------------------------
(* C9 *)

\* the calibration entry of the requested image is missing
EntryMissing == basename(cml_args.ff_file) \notin DOMAIN platepars

\* the catalog is missing or holds a non-numeric field
CatalogUnreadable == ~catalog_file.exists \/ ~catalog_file.numeric

\* number of columns of a non-empty catalog table
NCols == Len(catalog_file.rows[1])

\* nothing is written or printed unless the calibration entry was found,
\* the catalog was loaded and the render returned a canvas
WrittenOnlyAfterRender ==
    (storage # {} \/ stdout # <<>>) =>
        /\ platepar # None
        /\ lines # None
        /\ rets # <<>>

\* the run never writes an image
NeverWritten == storage = {} /\ stdout = <<>> /\ pc # "done"

----------------------------------------------------------------------------
(* C10 *)

\* the steps of drawConstellations
RenderStep == pc \in {"r_begin", "r_load", "r_project", "r_loop"}

\* C10: no step of a render changes the calibration, the catalog or the
\* storage, and renders repeated with the same arguments return identical
\* canvases.
C10_RenderHasNoSideEffect ==
    /\ [][RenderStep =>
            /\ platepar' = platepar
            /\ catalog_file' = catalog_file
            /\ storage' = storage
            /\ stdout' = stdout]_vars
    /\ [](\A a, b \in 1..Len(rets) : rets[a] = rets[b])

\* two renders returned, and the canvas has drawn pixels
C10_Witness ==
    /\ entry = "lib"
    /\ Len(rets) >= 2
    /\ ~Transparent(rets[1])

====
